---- MODULE Spec2Model ----
(***************************************************************************)
(* Model of scripts/download_bvbrc.py: the resumable, concurrency-bounded  *)
(* bulk downloader.  One behaviour is a sequence of invocations of the     *)
(* script on the same output directory.  Each invocation (a "run") reads   *)
(* the accession list and the success ledger, creates the download tasks   *)
(* batch by batch and gathers them; an invocation ends by printing the     *)
(* summary, by finding nothing to do, or by a KeyboardInterrupt.           *)
(*                                                                         *)
(* Environment assumptions: the three local files can always be appended   *)
(* to (append_line does not raise); every exception a task sees is raised  *)
(* by fetch_once.  asyncio runs one coroutine at a time, so every action   *)
(* below is the stretch of code between two awaits.                        *)
(***************************************************************************)
EXTENDS Integers, Sequences, FiniteSets, TLC

\* ---------------------------------------------------------------- bounds
NumIds     == 2     \* distinct accession strings
MaxLen     == 3     \* lines of the accession file
MaxC       == 2     \* largest --max_concurrency tried
MaxRuns    == 2     \* invocations on one output directory
BatchScale == 2     \* stands for the batch size of 100 (scaled down)
MaxWork    == 3     \* work items over all invocations together

\* ------------------------------------------------------------- constants
Blank      == 0                 \* a line that is empty after strip()
batch_size == BatchScale
Identifier == 1..NumIds         \* non-blank stripped lines
Line       == Identifier \cup {Blank}

\* what the endpoint does with one GET
Response == {"json200", "text200", "neterr", "crash"}

Range(s) == {s[k] : k \in 1..Len(s)}

Min(a, b) == IF a < b THEN a ELSE b

\* --------------------------------------------------------- pure functions
\* load_accessions: keep the non-blank lines, in order
NonBlank(l) == l # Blank
load_accessions(lines) == SelectSeq(lines, NonBlank)

\* a loader that reads nothing
load_downloaded_empty(file) == {}

\* load_downloaded: the set of non-blank lines of the success ledger
load_downloaded(file) == {l \in Range(file) : l # Blank}

\* a resume that forgets to filter: every accession of the list is work
TodoUnfiltered(accs, done) == accs

\* todo = [acc for acc in all_accessions if acc not in completed]
RECURSIVE Todo(_, _)
Todo(accs, done) ==
    IF accs = <<>> THEN <<>>
    ELSE IF Head(accs) \in done THEN Todo(Tail(accs), done)
         ELSE <<Head(accs)>> \o Todo(Tail(accs), done)

\* a fetch_once without the fallback: the JSONDecodeError gets out
fetch_once_strict(resp) ==
    CASE resp = "json200" -> "json"
      [] resp = "text200" -> "UnicodeDecodeError"
      [] resp = "neterr"  -> "ClientError"
      [] resp = "crash"   -> "UnicodeDecodeError"

\* fetch_once: what one call returns or raises for a response of the endpoint
fetch_once(resp) ==
    CASE resp = "json200" -> "json"                  \* json.loads succeeded
      [] resp = "text200" -> "raw"                   \* JSONDecodeError fallback
      [] resp = "neterr"  -> "ClientError"           \* raise_for_status, no
                                                     \* connection, or timeout
      [] resp = "crash"   -> "UnicodeDecodeError"    \* anything else

Returned(r) == r \in {"json", "raw"}
\* except (aiohttp.ClientError, asyncio.TimeoutError)
IsNetworkError(r) == r = "ClientError"

\* ------------------------------------------------------------------ state
VARIABLES
    raw_jsonl,        \* RAW_JSONL_FILE: sequence of records
    downloaded,       \* DOWNLOADED_LIST: sequence of lines
    failed_list,      \* FAILED_LIST: sequence of failure lines
    mpc,              \* where main() is
    runs,             \* invocations started so far
    MAX_CONCURRENCY,
    all_accessions, completed, todo,
    i,                \* offset of the current batch in todo
    semaphore,        \* free slots of asyncio.Semaphore
    task,             \* per work item: position in download_accession
    pbar,             \* tqdm counter
    printed,          \* what the run printed at its end
    work,             \* work items of all runs so far (bounds the model)
    \* history
    trace,            \* per work item: what it did, in order
    fetchLog,         \* accessions in the order their first fetch started
    downloaded0,      \* success ledger at the start of the run
    failed0,          \* failure ledger at the start of the run
    raw0,             \* record log at the start of the run
    ep,               \* first response seen per (accession, attempt)
    stable,           \* the endpoint never answered differently from ep
    prev              \* the run before this one: did it read the same
                      \* accession list, did it run to completion

files == <<raw_jsonl, downloaded, failed_list>>
mainv == <<mpc, runs, MAX_CONCURRENCY, all_accessions, completed, todo, i, printed, work>>
taskv == <<semaphore, task, pbar, trace, fetchLog>>
histv == <<downloaded0, failed0, raw0, prev>>
epv   == <<ep, stable>>
vars  == <<files, mainv, taskv, histv, epv>>

NoTask == [pc |-> "none", attempt |-> 0, val |-> "-"]
Tasks  == 1..Len(todo)

Running == mpc \in {"batch", "gather", "pause", "summary"}

Init ==
    /\ raw_jsonl = <<>> /\ downloaded = <<>> /\ failed_list = <<>>
    /\ mpc = "idle" /\ runs = 0
    /\ MAX_CONCURRENCY = 1
    /\ all_accessions = <<>> /\ completed = {} /\ todo = <<>>
    /\ i = 0 /\ semaphore = 0 /\ task = <<>> /\ pbar = 0
    /\ printed = <<>>
    /\ work = 0
    /\ trace = <<>> /\ fetchLog = <<>>
    /\ downloaded0 = <<>> /\ failed0 = <<>> /\ raw0 = <<>>
    /\ ep = [x \in Identifier \X {0, 1} |-> "unset"]
    /\ stable = TRUE
    /\ prev = [same |-> FALSE, completed |-> FALSE]

\* ------------------------------------------------------------------ main()
InputFiles == UNION {[1..n -> Line] : n \in 0..MaxLen}

\* main() up to the batch loop, for one accession file and one C
Begin(lines, c) ==
    /\ all_accessions' = load_accessions(lines)
    /\ completed' = load_downloaded(downloaded)
    /\ todo' = Todo(all_accessions', completed')
    /\ work + Len(todo') <= MaxWork
    /\ work' = work + Len(todo')
    /\ MAX_CONCURRENCY' = c
    /\ semaphore' = c
    /\ i' = 0
    /\ pbar' = 0
    /\ task' = [t \in 1..Len(todo') |-> NoTask]
    /\ trace' = [t \in 1..Len(todo') |-> <<>>]
    /\ fetchLog' = <<>>
    /\ IF todo' = <<>>
         THEN /\ mpc' = "nothing"
              /\ printed' = <<"All accessions already downloaded!">>
         ELSE /\ mpc' = "batch"
              /\ printed' = <<>>

StartRun ==
    /\ ~Running
    /\ runs < MaxRuns
    /\ runs' = runs + 1
    /\ \E lines \in InputFiles, c \in 1..MaxC : Begin(lines, c)
    /\ downloaded0' = downloaded /\ failed0' = failed_list /\ raw0' = raw_jsonl
    /\ prev' = [same |-> (mpc \in {"done", "nothing"} /\ all_accessions' = all_accessions),
                completed |-> (mpc \in {"done", "nothing"})]
    /\ UNCHANGED <<files, epv>>

BatchOf(k) == (k + 1)..Min(k + batch_size, Len(todo))

\* for acc in batch: asyncio.create_task(...)
CreateBatch ==
    /\ mpc = "batch"
    /\ task' = [t \in Tasks |->
                  IF t \in BatchOf(i) THEN [NoTask EXCEPT !.pc = "wait"] ELSE task[t]]
    /\ mpc' = "gather"
    /\ UNCHANGED <<files, runs, MAX_CONCURRENCY, all_accessions, completed, todo,
                   i, printed, work, semaphore, pbar, trace, fetchLog, histv, epv>>

\* a gather that returns as soon as one task of the batch has failed
GatherDoneFailFast ==
    /\ mpc = "gather"
    /\ \/ \A t \in BatchOf(i) : task[t].pc = "done"
       \/ \E t \in BatchOf(i) : task[t].pc = "done" /\ task[t].val = "False"
    /\ mpc' = "pause"
    /\ UNCHANGED <<files, runs, MAX_CONCURRENCY, all_accessions, completed, todo,
                   i, printed, work, taskv, histv, epv>>

\* a loop that does not wait for the batch
GatherDoneNoWait ==
    /\ mpc = "gather"
    /\ mpc' = "pause"
    /\ UNCHANGED <<files, runs, MAX_CONCURRENCY, all_accessions, completed, todo,
                   i, printed, work, taskv, histv, epv>>

\* await asyncio.gather(*tasks, return_exceptions=True) returns
GatherDone ==
    /\ mpc = "gather"
    /\ \A t \in BatchOf(i) : task[t].pc = "done"
    /\ mpc' = "pause"
    /\ UNCHANGED <<files, runs, MAX_CONCURRENCY, all_accessions, completed, todo,
                   i, printed, work, taskv, histv, epv>>

\* await asyncio.sleep(0.1) returns; next iteration or leave the loop
PauseDone ==
    /\ mpc = "pause"
    /\ i' = i + batch_size
    /\ mpc' = IF i' < Len(todo) THEN "batch" ELSE "summary"
    /\ UNCHANGED <<files, runs, MAX_CONCURRENCY, all_accessions, completed, todo,
                   printed, work, taskv, histv, epv>>

\* the summary after the session is closed
Summary ==
    /\ mpc = "summary"
    /\ LET downloaded_count == Cardinality(load_downloaded(downloaded))
           failed_count == Len(failed_list)
       IN printed' = <<downloaded_count, failed_count, downloaded_count + failed_count>>
    /\ mpc' = "done"
    /\ UNCHANGED <<files, runs, MAX_CONCURRENCY, all_accessions, completed, todo,
                   i, work, taskv, histv, epv>>

\* an interrupt handler that still prints the summary on its way out
InterruptSummarised ==
    /\ Running
    /\ mpc' = "killed"
    /\ MAX_CONCURRENCY' = 1
    /\ all_accessions' = <<>> /\ completed' = {} /\ todo' = <<>>
    /\ i' = 0 /\ semaphore' = 0 /\ task' = <<>> /\ pbar' = 0
    /\ printed' = <<Cardinality(load_downloaded(downloaded)), Len(failed_list),
                    Cardinality(load_downloaded(downloaded)) + Len(failed_list)>>
    /\ trace' = <<>> /\ fetchLog' = <<>>
    /\ UNCHANGED <<files, runs, work, histv, epv>>

\* KeyboardInterrupt: asyncio.run cancels every task where it stands, the
\* exception is swallowed at the top level and the process exits.  Nothing
\* is left of the process but the three files.
Interrupt ==
    /\ Running
    /\ mpc' = "killed"
    /\ MAX_CONCURRENCY' = 1
    /\ all_accessions' = <<>> /\ completed' = {} /\ todo' = <<>>
    /\ i' = 0 /\ semaphore' = 0 /\ task' = <<>> /\ pbar' = 0
    /\ printed' = <<>>
    /\ trace' = <<>> /\ fetchLog' = <<>>
    /\ UNCHANGED <<files, runs, work, histv, epv>>

\* ---------------------------------------------------- download_accession
Log(t, evs) == [trace EXCEPT ![t] = @ \o evs]

\* a task that starts fetching without waiting for a free slot
AcquireUnguarded(t) ==
    /\ Running
    /\ task[t].pc = "wait"
    /\ \A u \in Tasks : u < t => task[u].pc # "wait"
    /\ semaphore' = semaphore - 1
    /\ task' = [task EXCEPT ![t].pc = "fetch"]
    /\ trace' = Log(t, <<"fetch">>)
    /\ fetchLog' = Append(fetchLog, todo[t])
    /\ UNCHANGED <<files, mainv, pbar, histv, epv>>

\* `async with semaphore` is entered and fetch_once is called (attempt 0).
\* asyncio wakes the waiters of a semaphore in the order they arrived, which
\* is the order the tasks were created in.
Acquire(t) ==
    /\ Running
    /\ task[t].pc = "wait"
    /\ \A u \in Tasks : u < t => task[u].pc # "wait"
    /\ semaphore > 0
    /\ semaphore' = semaphore - 1
    /\ task' = [task EXCEPT ![t].pc = "fetch"]
    /\ trace' = Log(t, <<"fetch">>)
    /\ fetchLog' = Append(fetchLog, todo[t])
    /\ UNCHANGED <<files, mainv, pbar, histv, epv>>

\* a handler that retries network errors without counting the attempts
HandleRetryForever(tk, r) ==
    IF Returned(r) THEN [tk EXCEPT !.pc = "app_raw", !.val = r]
    ELSE IF IsNetworkError(r)
         THEN [tk EXCEPT !.pc = "sleep", !.val = r]
         ELSE [tk EXCEPT !.pc = "app_fl", !.val = r]

\* a handler whose first except clause catches every exception
HandleRetryAny(tk, r) ==
    IF Returned(r) THEN [tk EXCEPT !.pc = "app_raw", !.val = r]
    ELSE IF tk.attempt = 0
         THEN [tk EXCEPT !.pc = "sleep", !.val = r]
         ELSE [tk EXCEPT !.pc = "app_fl", !.val = r]

\* a handler that returns False on a terminal failure without logging it
HandleUnloggedFailure(tk, r) ==
    IF Returned(r) THEN [tk EXCEPT !.pc = "app_raw", !.val = r]
    ELSE IF IsNetworkError(r) /\ tk.attempt = 0
         THEN [tk EXCEPT !.pc = "sleep", !.val = r]
         ELSE [tk EXCEPT !.pc = "ret_fail", !.val = r]

\* a handler whose success path gives up when another task is writing the
\* record log
HandleBusy(tk, r) ==
    IF Returned(r)
    THEN IF \E u \in Tasks : task[u].pc = "app_raw"
         THEN [tk EXCEPT !.pc = "app_fl", !.val = "UnicodeDecodeError"]
         ELSE [tk EXCEPT !.pc = "app_raw", !.val = r]
    ELSE IF IsNetworkError(r) /\ tk.attempt = 0
         THEN [tk EXCEPT !.pc = "sleep", !.val = r]
         ELSE [tk EXCEPT !.pc = "app_fl", !.val = r]

\* what the task does with the result r of fetch_once on this attempt
Handle(tk, r) ==
    IF Returned(r) THEN [tk EXCEPT !.pc = "app_raw", !.val = r]
    ELSE IF IsNetworkError(r) /\ tk.attempt = 0
         THEN [tk EXCEPT !.pc = "sleep", !.val = r]
         ELSE [tk EXCEPT !.pc = "app_fl", !.val = r]

\* fetch_once returns or raises; the handler that applies runs up to its
\* next await
FetchEnds(t) ==
    /\ Running
    /\ task[t].pc = "fetch"
    /\ \E resp \in Response :
         LET r == fetch_once(resp)
             key == <<todo[t], task[t].attempt>>
         IN /\ ep' = IF ep[key] = "unset" THEN [ep EXCEPT ![key] = resp] ELSE ep
            /\ stable' = (stable /\ ep[key] \in {"unset", resp})
            /\ trace' = Log(t, <<r>>)
            /\ task' = [task EXCEPT ![t] = Handle(@, r)]
    /\ UNCHANGED <<files, mainv, semaphore, pbar, fetchLog, histv>>

\* a retry that logs the first failure before it tries again
BackoffLogged(t) ==
    /\ Running
    /\ task[t].pc = "sleep"
    /\ failed_list' = Append(failed_list, [accession |-> todo[t], error |-> task[t].val])
    /\ task' = [task EXCEPT ![t] = [pc |-> "fetch", attempt |-> 1, val |-> "-"]]
    /\ trace' = Log(t, <<"failed", "backoff", "fetch">>)
    /\ UNCHANGED <<raw_jsonl, downloaded, mainv, semaphore, pbar, fetchLog, histv, epv>>

\* await asyncio.sleep(2) returns; continue with attempt 1
Backoff(t) ==
    /\ Running
    /\ task[t].pc = "sleep"
    /\ task' = [task EXCEPT ![t] = [pc |-> "fetch", attempt |-> 1, val |-> "-"]]
    /\ trace' = Log(t, <<"backoff", "fetch">>)
    /\ UNCHANGED <<files, mainv, semaphore, pbar, fetchLog, histv, epv>>

\* a success path that never writes the record
AppendRecordDropped(t) ==
    /\ Running
    /\ task[t].pc = "app_raw"
    /\ task' = [task EXCEPT ![t].pc = "app_dl"]
    /\ trace' = Log(t, <<"record">>)
    /\ UNCHANGED <<files, mainv, semaphore, pbar, fetchLog, histv, epv>>

\* append_line(RAW_JSONL_FILE, json.dumps(record)) writes its line; the
\* task goes on into append_line(DOWNLOADED_LIST, accession)
AppendRecord(t) ==
    /\ Running
    /\ task[t].pc = "app_raw"
    /\ raw_jsonl' = Append(raw_jsonl, [accession |-> todo[t], data |-> task[t].val])
    /\ task' = [task EXCEPT ![t].pc = "app_dl"]
    /\ trace' = Log(t, <<"record">>)
    /\ UNCHANGED <<downloaded, failed_list, mainv, semaphore, pbar, fetchLog,
                   histv, epv>>

\* a success path that never writes the ledger line
AppendDownloadedDropped(t) ==
    /\ Running
    /\ task[t].pc = "app_dl"
    /\ task' = [task EXCEPT ![t].pc = "ret_ok"]
    /\ trace' = Log(t, <<"downloaded">>)
    /\ UNCHANGED <<files, mainv, semaphore, pbar, fetchLog, histv, epv>>

\* append_line(DOWNLOADED_LIST, accession) writes its line
AppendDownloaded(t) ==
    /\ Running
    /\ task[t].pc = "app_dl"
    /\ downloaded' = Append(downloaded, todo[t])
    /\ task' = [task EXCEPT ![t].pc = "ret_ok"]
    /\ trace' = Log(t, <<"downloaded">>)
    /\ UNCHANGED <<raw_jsonl, failed_list, mainv, semaphore, pbar, fetchLog,
                   histv, epv>>

\* append_line(FAILED_LIST, ...) writes its line
AppendFailed(t) ==
    /\ Running
    /\ task[t].pc = "app_fl"
    /\ failed_list' = Append(failed_list, [accession |-> todo[t], error |-> task[t].val])
    /\ task' = [task EXCEPT ![t].pc = "ret_fail"]
    /\ trace' = Log(t, <<"failed">>)
    /\ UNCHANGED <<raw_jsonl, downloaded, mainv, semaphore, pbar, fetchLog,
                   histv, epv>>

\* a return that gives the slot back only on the success path
ReturnLeakOnFailure(t) ==
    /\ Running
    /\ task[t].pc \in {"ret_ok", "ret_fail"}
    /\ pbar' = pbar + 1
    /\ semaphore' = IF task[t].pc = "ret_ok" THEN semaphore + 1 ELSE semaphore
    /\ task' = [task EXCEPT ![t] = [pc |-> "done", attempt |-> @.attempt,
                                    val |-> IF @.pc = "ret_ok" THEN "True"
                                                                ELSE "False"]]
    /\ trace' = Log(t, <<"tick">>)
    /\ UNCHANGED <<files, mainv, fetchLog, histv, epv>>

\* a return that never gives the slot back
ReturnNoRelease(t) ==
    /\ Running
    /\ task[t].pc \in {"ret_ok", "ret_fail"}
    /\ pbar' = pbar + 1
    /\ semaphore' = semaphore
    /\ task' = [task EXCEPT ![t] = [pc |-> "done", attempt |-> @.attempt,
                                    val |-> IF @.pc = "ret_ok" THEN "True"
                                                                ELSE "False"]]
    /\ trace' = Log(t, <<"tick">>)
    /\ UNCHANGED <<files, mainv, fetchLog, histv, epv>>

\* a return that forgets the progress bar
ReturnUnticked(t) ==
    /\ Running
    /\ task[t].pc \in {"ret_ok", "ret_fail"}
    /\ pbar' = pbar
    /\ semaphore' = semaphore + 1
    /\ task' = [task EXCEPT ![t] = [pc |-> "done", attempt |-> @.attempt,
                                    val |-> IF @.pc = "ret_ok" THEN "True"
                                                                ELSE "False"]]
    /\ trace' = Log(t, <<"tick">>)
    /\ UNCHANGED <<files, mainv, fetchLog, histv, epv>>

\* pbar.update(1); return True / False; the semaphore is released
Return(t) ==
    /\ Running
    /\ task[t].pc \in {"ret_ok", "ret_fail"}
    /\ pbar' = pbar + 1
    /\ semaphore' = semaphore + 1
    /\ task' = [task EXCEPT ![t] = [pc |-> "done", attempt |-> @.attempt,
                                    val |-> IF @.pc = "ret_ok" THEN "True"
                                                                ELSE "False"]]
    /\ trace' = Log(t, <<"tick">>)
    /\ UNCHANGED <<files, mainv, fetchLog, histv, epv>>

TaskStep ==
    \E t \in Tasks :
        \/ Acquire(t)
        \/ FetchEnds(t)
        \/ Backoff(t)
        \/ AppendRecord(t)
        \/ AppendDownloaded(t)
        \/ AppendFailed(t)
        \/ Return(t)

Next ==
    \/ StartRun
    \/ CreateBatch
    \/ GatherDone
    \/ PauseDone
    \/ Summary
    \/ Interrupt
    \/ TaskStep

Spec == Init /\ [][Next]_vars

\* what the event loop does by itself, once asyncio.run(main()) is under way:
\* every step but the start of the script and the interrupt
Progress ==
    \/ CreateBatch
    \/ GatherDone
    \/ PauseDone
    \/ Summary
    \/ TaskStep

\* one invocation of the script on an empty output directory: termination
\* is a property of a single asyncio.run(main())
NextOnce ==
    \/ runs = 0 /\ StartRun
    \/ CreateBatch
    \/ GatherDone
    \/ PauseDone
    \/ Summary
    \/ Interrupt
    \/ TaskStep

\* the event loop keeps running what is ready, every request ends (the
\* session has a total timeout) and every sleep returns
FairSpec == Init /\ [][NextOnce]_vars /\ WF_vars(Progress)

TypeOK ==
    /\ mpc \in {"idle", "batch", "gather", "pause", "summary", "done", "nothing", "killed"}
    /\ runs \in 0..MaxRuns
    /\ semaphore \in 0..MaxC
    /\ Len(todo) <= MaxLen
    /\ DOMAIN task = Tasks

\* ---------------------------------------------------------------- claims
\* vocabulary of the properties, independent of the operators of the model
Count(s, x) == Cardinality({k \in 1..Len(s) : s[k] = x})
LedgerIds(file) == {file[k] : k \in 1..Len(file)}
FailedIds(file) == {file[k].accession : k \in 1..Len(file)}
RecordIds(file) == {file[k].accession : k \in 1..Len(file)}
NewLines(file, file0) == SubSeq(file, Len(file0) + 1, Len(file))
CountAcc(file, x) == Cardinality({k \in 1..Len(file) : file[k].accession = x})
IsPrefix(s, u) == Len(s) <= Len(u) /\ SubSeq(u, 1, Len(s)) = s
Completed == mpc \in {"done", "nothing"}
NotInLedger0(a) == a \notin LedgerIds(downloaded0)
ExpectedWork == SelectSeq(all_accessions, NotInLedger0)
Fetching == {t \in Tasks : task[t].pc = "fetch"}
Finished(t) == task[t].pc = "done"
Succeeded(t) == Finished(t) /\ task[t].val = "True"
Failed(t) == Finished(t) /\ task[t].val = "False"

\* C1: in every reachable state the number of work items executing a fetch is
\* at most the configured bound C.
ConcurrencyBound == Cardinality(Fetching) <= MAX_CONCURRENCY

\* the bound is reached while another task is kept waiting for a slot
ConcurrencyBoundWitness ==
    /\ Cardinality(Fetching) = MAX_CONCURRENCY
    /\ \E t \in Tasks : task[t].pc = "wait"

\* C2: the identifiers whose fetch is started are, in order, the input list
\* without the identifiers that were in the success ledger at the start of the
\* run (a prefix of it while the run is under way, all of it at the end); the
\* failure ledger plays no part.
ResumeWorkSet ==
    /\ IsPrefix(fetchLog, ExpectedWork)
    /\ Completed => fetchLog = ExpectedWork
    /\ \A k \in 1..Len(fetchLog) : fetchLog[k] \notin LedgerIds(downloaded0)

\* a resumed run has skipped a completed identifier and has fetched again one
\* that an earlier run logged as failed
ResumeWorkSetWitness ==
    /\ mpc = "done"
    /\ \E x \in Range(all_accessions) : x \in LedgerIds(downloaded0)
    /\ \E k \in 1..Len(fetchLog) : fetchLog[k] \in FailedIds(failed0)

\* C3: when the pipeline ran to completion twice in a row on the same input
\* and the endpoint gave the same answers, the second run leaves the set of
\* the success ledger unchanged; when the first run left every identifier of
\* the input in the success ledger, the second run starts no fetch.
IdempotentResume ==
    (Completed /\ prev.completed /\ prev.same) =>
        /\ stable => LedgerIds(downloaded) = LedgerIds(downloaded0)
        /\ Range(all_accessions) \subseteq LedgerIds(downloaded0) => fetchLog = <<>>

\* the second of two completed runs on one input has tried again what the
\* first run failed on, beside what it had succeeded on, and failed again
IdempotentResumeWitness ==
    /\ mpc = "done" /\ prev.completed /\ prev.same /\ stable
    /\ fetchLog # <<>>
    /\ downloaded # <<>>

\* C4 as stated: after a run that was not interrupted every identifier of the
\* input is in exactly one of the success ledger and the failure ledger.
CompletenessExactlyOne ==
    Completed =>
        \A x \in Range(all_accessions) :
            (x \in LedgerIds(downloaded)) # (x \in FailedIds(failed_list))

\* C4 amended: after a run that was not interrupted every identifier of the
\* input is in at least one of the two ledgers, and the run appended one
\* ledger line per work item: for every identifier as many lines, over the
\* two ledgers together, as the identifier has work items.
Completeness ==
    Completed =>
        /\ \A x \in Range(all_accessions) :
              x \in LedgerIds(downloaded) \cup FailedIds(failed_list)
        /\ \A x \in Identifier :
              Count(NewLines(downloaded, downloaded0), x)
                + CountAcc(NewLines(failed_list, failed0), x) = Count(todo, x)

\* a completed run in which one work item succeeded and another one failed
CompletenessWitness ==
    /\ mpc = "done"
    /\ NewLines(downloaded, downloaded0) # <<>>
    /\ NewLines(failed_list, failed0) # <<>>

\* C5: in every reachable state each identifier is at most once a line of the
\* success ledger.
LedgerUnique == \A x \in Identifier : Count(downloaded, x) <= 1

\* C6: in every reachable state, also the one an interrupt leaves behind, the
\* record log holds for every identifier at least as many records as the
\* success ledger holds lines, so no ledger entry is without its record.
AtLeastOnce ==
    \A x \in Identifier : CountAcc(raw_jsonl, x) >= Count(downloaded, x)

\* a run was interrupted between the two appends and the identifier was
\* fetched again on resume: two records, one ledger line
AtLeastOnceWitness ==
    /\ mpc = "done"
    /\ \E x \in Identifier :
          /\ Count(all_accessions, x) = 1
          /\ CountAcc(raw0, x) = 1 /\ Count(downloaded0, x) = 0
          /\ CountAcc(raw_jsonl, x) = 2 /\ Count(downloaded, x) = 1

\* C7: at the end of a run that was not interrupted every work item has
\* appended one record and one success-ledger line, or neither; a work item
\* that ended in terminal failure appended no record.  The files agree: per
\* identifier the run added as many records as ledger lines, one for each
\* work item that succeeded.
RecordLedgerPairing ==
    Completed =>
        /\ \A t \in Tasks :
              /\ Count(trace[t], "record") = Count(trace[t], "downloaded")
              /\ Count(trace[t], "record") = (IF Succeeded(t) THEN 1 ELSE 0)
              /\ Failed(t) => Count(trace[t], "record") = 0
        /\ \A x \in Identifier :
              LET ok == Cardinality({t \in Tasks : todo[t] = x /\ Succeeded(t)})
              IN /\ CountAcc(NewLines(raw_jsonl, raw0), x) = ok
                 /\ Count(NewLines(downloaded, downloaded0), x) = ok

\* a completed run with a success and a terminal failure
RecordLedgerPairingWitness ==
    /\ mpc = "done"
    /\ \E t \in Tasks : Succeeded(t)
    /\ \E t \in Tasks : Failed(t)

\* the ways through download_accession the retry policy allows
NetErr == "ClientError"
OtherErr == "UnicodeDecodeError"
Retried == <<"fetch", NetErr, "backoff", "fetch">>
IsResult(e) == e \in {"json", "raw", NetErr, OtherErr}
Results(tr) == SelectSeq(tr, IsResult)
AllowedTraces ==
    {<<"fetch", p, "record", "downloaded", "tick">> : p \in {"json", "raw"}}
    \cup {<<"fetch", OtherErr, "failed", "tick">>}
    \cup {Retried \o <<p, "record", "downloaded", "tick">> : p \in {"json", "raw"}}
    \cup {Retried \o <<e, "failed", "tick">> : e \in {NetErr, OtherErr}}

\* C8: a work item is fetched at most twice in a run; the second fetch comes
\* only after a network error of the first and after the backoff; whatever
\* fails the second attempt is terminal.
RetryStateMachine ==
    \A t \in Tasks :
        /\ Count(trace[t], "fetch") <= 2
        /\ \E a \in AllowedTraces : IsPrefix(trace[t], a)

\* a work item has failed its second attempt and is finished
RetryStateMachineWitness ==
    \E t \in Tasks : Finished(t) /\ trace[t] = Retried \o <<NetErr, "failed", "tick">>

\* C9: at the end of a run that was not interrupted, a work item whose first
\* attempt raised a network error and whose second attempt returned has
\* appended one record and one success-ledger line and no failure line; when
\* it is the only work item of its identifier the run added just these lines
\* for the identifier.
RetryThenSuccess ==
    Completed =>
        \A t \in Tasks :
            Results(trace[t]) \in {<<NetErr, "json">>, <<NetErr, "raw">>} =>
                /\ Succeeded(t)
                /\ Count(trace[t], "record") = 1
                /\ Count(trace[t], "downloaded") = 1
                /\ Count(trace[t], "failed") = 0
                /\ Count(todo, todo[t]) = 1 =>
                      /\ CountAcc(NewLines(raw_jsonl, raw0), todo[t]) = 1
                      /\ Count(NewLines(downloaded, downloaded0), todo[t]) = 1
                      /\ CountAcc(NewLines(failed_list, failed0), todo[t]) = 0

\* a completed run with a work item that succeeded on its second attempt
RetryThenSuccessWitness ==
    /\ mpc = "done"
    /\ \E t \in Tasks : Results(trace[t]) = <<NetErr, "json">>

\* C10: a finished work item whose two attempts raised network errors wrote
\* one failure line, after the second attempt; a finished work item that met
\* another exception wrote one failure line right after it, with no backoff
\* and no further attempt, on whichever attempt it was.  The failure lines the
\* run added carry the exception of the work items that failed.
FailureClassification ==
    /\ \A t \in Tasks :
          LET tr == trace[t] IN
          Finished(t) =>
              /\ Count(tr, NetErr) = 2 =>
                    /\ Count(tr, "failed") = 1
                    /\ tr = Retried \o <<NetErr, "failed", "tick">>
              /\ Count(tr, OtherErr) >= 1 =>
                    /\ Count(tr, "failed") = 1
                    /\ Count(tr, OtherErr) = 1
                    /\ \E p \in {2, 5} :
                          /\ Len(tr) = p + 2
                          /\ tr[p] = OtherErr /\ tr[p + 1] = "failed"
                          /\ Count(tr, "fetch") = (IF p = 2 THEN 1 ELSE 2)
    /\ Completed =>
          \A x \in Identifier, e \in {NetErr, OtherErr} :
              Count(NewLines(failed_list, failed0), [accession |-> x, error |-> e])
                = Cardinality({t \in Tasks : /\ todo[t] = x /\ Failed(t)
                                             /\ trace[t][Len(trace[t]) - 2] = e})

\* a completed run with one failure of each kind
FailureClassificationWitness ==
    /\ mpc = "done"
    /\ \E t \in Tasks : Failed(t) /\ Count(trace[t], NetErr) = 2
    /\ \E t \in Tasks : Failed(t) /\ trace[t] = <<"fetch", OtherErr, "failed", "tick">>

\* the work items that are inside append_line on one of the three files: the
\* file is open for append and the line is not yet written and closed
InAppend(pc) == {t \in Tasks : task[t].pc = pc}
NoDuplicates(s) == \A j, k \in 1..Len(s) : s[j] = s[k] => j = k

\* C11: in no reachable state are two download tasks inside an append on the
\* same file at the same time (stated for inputs without repeated
\* identifiers, so that the two writers are two different accessions).
SerializedWriters ==
    NoDuplicates(all_accessions) =>
        \A pc \in {"app_raw", "app_dl", "app_fl"} : Cardinality(InAppend(pc)) <= 1

\* C12: at the normal end of a run on an input without repeated identifiers
\* the summary reports as succeeded the input identifiers that are in the
\* success ledger, as failed the input identifiers that failed in this run,
\* and as total their sum, which is the length of the input list.
SummaryCounts ==
    (mpc = "done" /\ NoDuplicates(all_accessions)) =>
        LET succeeded == Cardinality({x \in Range(all_accessions) :
                                          x \in LedgerIds(downloaded)})
            failed == Cardinality({t \in Tasks : Failed(t)})
        IN /\ printed = <<succeeded, failed, succeeded + failed>>
           /\ succeeded + failed = Len(all_accessions)

\* C13 as stated: the process ends on an interrupt only when every work item
\* in flight (admitted, not yet returned) has reached its terminal outcome and
\* its ledger append.
InterruptLetsFinish ==
    [][mpc' = "killed" =>
          \A t \in Tasks : task[t].pc \in {"none", "wait", "done"}]_vars

\* C13 amended: an interrupt ends the process where it stands: the step that
\* ends it writes nothing to the three files and prints no summary, and after
\* it nothing is written and no work item is started until the script is
\* invoked again.
InterruptStops ==
    [][/\ (mpc' = "killed" /\ mpc # "killed") =>
             /\ files' = files
             /\ printed = <<>> /\ printed' = <<>>
             /\ task' = <<>>
       /\ mpc = "killed" =>
             /\ files' = files
             /\ runs' = runs + 1]_vars

\* an interrupt has cut a work item between its record and its ledger line
InterruptStopsWitness ==
    /\ mpc = "killed"
    /\ Len(NewLines(raw_jsonl, raw0)) > Len(NewLines(downloaded, downloaded0))

TickedOnce(t) == Count(trace[t], "tick") = (IF Finished(t) THEN 1 ELSE 0)
LedgerEvents(t) == Count(trace[t], "downloaded") + Count(trace[t], "failed")
NewLedgerLines ==
    Len(NewLines(downloaded, downloaded0)) + Len(NewLines(failed_list, failed0))
ProgressTickInv ==
    (Running \/ mpc = "done") =>
        /\ pbar = Cardinality({t \in Tasks : Finished(t)})
        /\ pbar <= NewLedgerLines
        /\ \A t \in Tasks :
              /\ TickedOnce(t)
              /\ Finished(t) =>
                    /\ LedgerEvents(t) = 1
                    /\ trace[t][Len(trace[t]) - 1] \in {"downloaded", "failed"}
        /\ mpc = "done" => pbar = Len(todo)

\* C14: the progress counter is incremented once per work item, after the
\* item's ledger line has been appended; within a run it never decreases; in
\* every state it is the number of work items that have returned with their
\* outcome, and at normal completion the number of work items.
ProgressTick ==
    /\ []ProgressTickInv
    /\ [][(Running /\ mpc' # "killed") => (pbar' = pbar \/ pbar' = pbar + 1)]_vars

\* one work item has ticked; another has its ledger line and has not yet
\* ticked
ProgressTickWitness ==
    /\ pbar = 1
    /\ \E t \in Tasks : task[t].pc \in {"ret_ok", "ret_fail"}

BatchIndex(t) == (t - 1) \div batch_size
Live(t) == task[t].pc \notin {"none", "done"}

\* C15: the work items are taken in consecutive batches of the batch size; no
\* task of a later batch exists before every item of the batches before it has
\* finished, so the live tasks are never more than the batch size.
BatchBarrier ==
    /\ \A t, u \in Tasks :
          /\ (BatchIndex(t) < BatchIndex(u) /\ task[u].pc # "none") => Finished(t)
          /\ (t < u /\ task[u].pc # "none") => task[t].pc # "none"
          /\ (BatchIndex(t) = BatchIndex(u) /\ task[u].pc # "none") => task[t].pc # "none"
    /\ Cardinality({t \in Tasks : Live(t)}) <= batch_size

\* a work item of the second batch is fetching
BatchBarrierWitness ==
    \E u \in Tasks : BatchIndex(u) = 1 /\ task[u].pc = "fetch"

LastResult(t) == Results(trace[t])[Len(Results(trace[t]))]
GotRaw(t) == Results(trace[t]) # <<>> /\ LastResult(t) = "raw"

\* C17: a work item whose fetch got a 2xx response with a body that is no
\* JSON takes the success path on that attempt: one record carrying the raw
\* body, one success-ledger line, no retry after it and no failure line.
DecodeAnomalySuccess ==
    /\ \A t \in Tasks :
          /\ GotRaw(t) =>
                /\ task[t].pc \in {"app_raw", "app_dl", "ret_ok", "done"}
                /\ Count(trace[t], "failed") = 0
                /\ Count(trace[t], "fetch") = Len(Results(trace[t]))
          /\ (GotRaw(t) /\ Finished(t)) =>
                /\ Succeeded(t)
                /\ SubSeq(trace[t], Len(trace[t]) - 3, Len(trace[t]))
                      = <<"raw", "record", "downloaded", "tick">>
          /\ (stable /\ Finished(t) /\ ep[<<todo[t], 0>>] = "text200") =>
                GotRaw(t) /\ Count(trace[t], "fetch") = 1
    /\ Completed =>
          \A x \in Identifier :
              Count(NewLines(raw_jsonl, raw0), [accession |-> x, data |-> "raw"])
                = Cardinality({t \in Tasks : todo[t] = x /\ GotRaw(t)})

\* a completed run with a work item that succeeded with a raw body on its
\* first attempt
DecodeAnomalySuccessWitness ==
    /\ mpc = "done"
    /\ \E t \in Tasks : Succeeded(t) /\ Results(trace[t]) = <<"raw">>

Holders ==
    {t \in Tasks : task[t].pc \in {"fetch", "sleep", "app_raw", "app_dl", "app_fl",
                                   "ret_ok", "ret_fail"}}

\* C19: a work item holds its slot from before its first fetch until it
\* leaves download_accession, through the backoff and the appends: free slots
\* plus work items under way are C, the work items under way are at most C,
\* and between the batches and at the end all C slots are free.
SlotHeld ==
    (Running \/ mpc = "done") =>
        /\ semaphore + Cardinality(Holders) = MAX_CONCURRENCY
        /\ Cardinality(Holders) <= MAX_CONCURRENCY
        /\ mpc \in {"batch", "pause", "summary", "done"} => semaphore = MAX_CONCURRENCY

\* a work item sleeps in its backoff with the only slot, another one waits
SlotHeldWitness ==
    /\ semaphore = 0
    /\ \E t, u \in Tasks : task[t].pc = "sleep" /\ task[u].pc = "wait"

Answer(x, a) == ep[<<x, a>>]
Is2xx(resp) == resp \in {"json200", "text200"}
ExpectOk(x) ==
    Is2xx(Answer(x, 0)) \/ (Answer(x, 0) = "neterr" /\ Is2xx(Answer(x, 1)))
ExpectBody(x) ==
    LET resp == IF Is2xx(Answer(x, 0)) THEN Answer(x, 0) ELSE Answer(x, 1)
    IN IF resp = "json200" THEN "json" ELSE "raw"
ExpectError(x) ==
    LET resp == IF Answer(x, 0) = "neterr" THEN Answer(x, 1) ELSE Answer(x, 0)
    IN IF resp = "neterr" THEN NetErr ELSE OtherErr

\* C20: for an input of distinct identifiers and an endpoint whose answer per
\* identifier and attempt is fixed, what a run that was not interrupted adds
\* to the three logs is a function of the input, the success ledger at start
\* and the answers alone, whatever C and the interleaving were.
OutcomeDeterminism ==
    (mpc = "done" /\ stable /\ NoDuplicates(all_accessions)) =>
        LET workset == {x \in Range(all_accessions) : x \notin LedgerIds(downloaded0)}
        IN /\ LedgerIds(downloaded)
                = LedgerIds(downloaded0) \cup {x \in workset : ExpectOk(x)}
           /\ FailedIds(NewLines(failed_list, failed0))
                = {x \in workset : ~ExpectOk(x)}
           /\ \A x \in Identifier :
                /\ \A d \in {"json", "raw"} :
                      Count(NewLines(raw_jsonl, raw0), [accession |-> x, data |-> d])
                        = (IF x \in workset /\ ExpectOk(x) /\ ExpectBody(x) = d
                           THEN 1 ELSE 0)
                /\ \A e \in {NetErr, OtherErr} :
                      Count(NewLines(failed_list, failed0), [accession |-> x, error |-> e])
                        = (IF x \in workset /\ ~ExpectOk(x) /\ ExpectError(x) = e
                           THEN 1 ELSE 0)

\* two work items ran side by side against a fixed endpoint; one succeeded,
\* one failed
OutcomeDeterminismWitness ==
    /\ mpc = "done" /\ stable /\ NoDuplicates(all_accessions)
    /\ MAX_CONCURRENCY = 2
    /\ NewLines(downloaded, downloaded0) # <<>>
    /\ NewLines(failed_list, failed0) # <<>>

\* C18: with every attempt ending and the tasks scheduled fairly, a run that
\* is under way ends, and every work item that waits for a slot or is under
\* way finishes, unless the run is interrupted first.
EventualTermination ==
    /\ Running ~> (mpc \in {"done", "killed"})
    /\ \A t \in 1..MaxLen :
          (t \in Tasks /\ Live(t)) ~> (mpc = "killed" \/ (t \in Tasks /\ Finished(t)))

\* a run of three work items on one slot has ended normally
EventualTerminationWitness ==
    /\ mpc = "done"
    /\ MAX_CONCURRENCY = 1
    /\ Len(todo) > batch_size
    /\ \A t \in Tasks : Finished(t)
====
